---------------------------- MODULE Spec2Model ----------------------------
(***************************************************************************)
(* A model of haretconsole/memalias.py: the translation of haret memory    *)
(* trace lines into register and bit-field names.                          *)
(*                                                                         *)
(* Text is modelled as it is in the program: a Python string is a sequence *)
(* of one-character strings, the regular expressions are matched on the    *)
(* characters, numbers are parsed from and formatted to characters.        *)
(* Offsets returned by a match (m.end) are Python's 0-based offsets; the   *)
(* sequences themselves are indexed from 1.                                *)
(***************************************************************************)
EXTENDS Integers, Sequences, FiniteSets, TLC

(***************************************************************************)
(* Bounds of the model.                                                    *)
(***************************************************************************)
\* Number of lines one run feeds to procline.
MaxLines == 4

(***************************************************************************)
(* Characters and text.                                                    *)
(***************************************************************************)
DecChars == <<"0","1","2","3","4","5","6","7","8","9">>
HexChars == <<"0","1","2","3","4","5","6","7","8","9","a","b","c","d","e","f">>
HexUpper == <<"0","1","2","3","4","5","6","7","8","9","A","B","C","D","E","F">>

Range(f) == {f[i] : i \in DOMAIN f}
Max(S) == CHOOSE x \in S : \A y \in S : y <= x

\* The literal lit occurs in s at (1-based) position i.
StartsAt(s, i, lit) ==
    /\ i >= 1
    /\ i + Len(lit) - 1 <= Len(s)
    /\ SubSeq(s, i, i + Len(lit) - 1) = lit

\* s[i..j] can be matched by `.*`: `.` matches anything but a newline.
DotStar(s, i, j) == \A k \in i..j : s[k] # "\n"

\* Last index of the longest run of characters of class cls that starts at
\* i; i-1 when s[i] is not in the class.
RECURSIVE RunEnd(_, _, _)
RunEnd(s, i, cls) ==
    IF i <= Len(s) /\ s[i] \in cls THEN RunEnd(s, i + 1, cls) ELSE i - 1

\* The position of the `\)` that `\)$` can match: `$` matches at the end of
\* the string and just before a newline that ends it.
ClosePos(s) == IF Len(s) >= 1 /\ s[Len(s)] = "\n" THEN Len(s) - 1 ELSE Len(s)

\* sub occurs somewhere in s (Python's `sub in s`).
Contains(s, sub) == \E i \in 1..(Len(s) + 1) : StartsAt(s, i, sub) \/ sub = <<>>

RECURSIVE Concat(_)
Concat(ss) == IF ss = <<>> THEN <<>> ELSE Head(ss) \o Concat(Tail(ss))

\* sep.join(ss)
RECURSIVE Join(_, _)
Join(sep, ss) ==
    IF ss = <<>> THEN <<>>
    ELSE IF Len(ss) = 1 THEN ss[1]
    ELSE ss[1] \o sep \o Join(sep, Tail(ss))

\* s.rstrip(): trailing whitespace removed.
WhiteSpace == {" ", "\t", "\n", "\r"}
RECURSIVE rstrip(_)
rstrip(s) ==
    IF s # <<>> /\ s[Len(s)] \in WhiteSpace THEN rstrip(SubSeq(s, 1, Len(s) - 1))
    ELSE s

(***************************************************************************)
(* Numbers: int(text, base) and the % formats the program uses.            *)
(***************************************************************************)
DigitOf(c) ==
    IF c \in Range(HexChars) THEN (CHOOSE i \in DOMAIN HexChars : HexChars[i] = c) - 1
    ELSE IF c \in Range(HexUpper) THEN (CHOOSE i \in DOMAIN HexUpper : HexUpper[i] = c) - 1
    ELSE 99

\* The digits of an int() argument: for base 16 a leading 0x is accepted.
IntDigits(s, base) ==
    IF base = 16 /\ (StartsAt(s, 1, <<"0","x">>) \/ StartsAt(s, 1, <<"0","X">>))
    THEN SubSeq(s, 3, Len(s)) ELSE s

\* int(s, base) returns a number; otherwise it raises ValueError.
IsInt(s, base) ==
    /\ IntDigits(s, base) # <<>>
    /\ \A i \in DOMAIN IntDigits(s, base) : DigitOf(IntDigits(s, base)[i]) < base

RECURSIVE DigitsValue(_, _, _)
DigitsValue(s, base, acc) ==
    IF s = <<>> THEN acc
    ELSE DigitsValue(Tail(s), base, acc * base + DigitOf(Head(s)))

PyInt(s, base) == DigitsValue(IntDigits(s, base), base, 0)

\* The digits of n >= 0 in the base, most significant first.
RECURSIVE Digits(_, _)
Digits(n, base) ==
    IF n < base THEN <<HexChars[n + 1]>>
    ELSE Digits(n \div base, base) \o <<HexChars[(n % base) + 1]>>

RECURSIVE Repeat(_, _)
Repeat(c, n) == IF n <= 0 THEN <<>> ELSE <<c>> \o Repeat(c, n - 1)

\* "%d" and "%x": a sign, then the digits.
FmtNum(n, base) == IF n < 0 THEN <<"-">> \o Digits(-n, base) ELSE Digits(n, base)
\* "%0wd" and "%0wx": zeros go between the sign and the digits.
FmtNum0(n, base, w) ==
    IF n < 0 THEN <<"-">> \o Repeat("0", w - 1 - Len(Digits(-n, base))) \o Digits(-n, base)
    ELSE Repeat("0", w - Len(Digits(n, base))) \o Digits(n, base)
\* "%ws": right-justified with spaces.
FmtStr(s, w) == Repeat(" ", w - Len(s)) \o s
\* "%07.3f" % (ms / 1000.0,) for a millisecond count ms >= 0.
FmtSeconds(ms) ==
    LET body == Digits(ms \div 1000, 10) \o <<".">> \o FmtNum0(ms % 1000, 10, 3)
    IN  Repeat("0", 7 - Len(body)) \o body

(***************************************************************************)
(* Integers used as bit vectors (register values, changed masks, field     *)
(* masks) are Python integers of unbounded width in two's complement.      *)
(* Such a value is the record [inv, bits]: the set of the positions of its *)
(* 1 bits, or with inv = TRUE of its 0 bits (the value ~n of a             *)
(* non-negative n).  All 32 bits of a register are representable this      *)
(* way.  Numbers the program does arithmetic on (times, clocks, positions, *)
(* addresses) are Int.                                                     *)
(***************************************************************************)
Bits(S) == [inv |-> FALSE, bits |-> S]
Zero == Bits({})
\* 1 << n
Bit(n) == Bits({n})
\* ~a
Not(a) == [inv |-> ~a.inv, bits |-> a.bits]
\* a & b
And(a, b) ==
    IF ~a.inv /\ ~b.inv THEN Bits(a.bits \cap b.bits)
    ELSE IF ~a.inv THEN Bits(a.bits \ b.bits)
    ELSE IF ~b.inv THEN Bits(b.bits \ a.bits)
    ELSE [inv |-> TRUE, bits |-> a.bits \cup b.bits]
\* a | b
Or(a, b) ==
    IF ~a.inv /\ ~b.inv THEN Bits(a.bits \cup b.bits)
    ELSE IF ~a.inv THEN [inv |-> TRUE, bits |-> b.bits \ a.bits]
    ELSE IF ~b.inv THEN [inv |-> TRUE, bits |-> a.bits \ b.bits]
    ELSE [inv |-> TRUE, bits |-> a.bits \cap b.bits]

\* The bit vector of the number n, 0 <= n.
RECURSIVE BitsOfNat(_, _)
BitsOfNat(n, i) ==
    IF n = 0 THEN {}
    ELSE (IF n % 2 = 1 THEN {i} ELSE {}) \cup BitsOfNat(n \div 2, i + 1)
BitVec(n) == Bits(BitsOfNat(n, 0))

\* int(s, 16) as a bit vector: the digit k places from the right gives the
\* bits 4k..4k+3.
HexBits(s) ==
    LET ds == IntDigits(s, 16)
    IN  Bits(UNION {{4 * (Len(ds) - k) + j : j \in BitsOfNat(DigitOf(ds[k]), 0)} :
                        k \in DOMAIN ds})

\* "%x" % a, for a >= 0.
HexDigit(a, k) ==
    HexChars[1 + (IF 4 * k \in a.bits THEN 1 ELSE 0) + (IF 4 * k + 1 \in a.bits THEN 2 ELSE 0)
               + (IF 4 * k + 2 \in a.bits THEN 4 ELSE 0) + (IF 4 * k + 3 \in a.bits THEN 8 ELSE 0)]
FmtHex(a) ==
    LET n == IF a.bits = {} THEN 1 ELSE (Max(a.bits) \div 4) + 1
    IN  [k \in 1..n |-> HexDigit(a, n - k)]
\* "%0wx" % a, for a >= 0.
FmtHex0(a, w) == Repeat("0", w - Len(FmtHex(a))) \o FmtHex(a)

(***************************************************************************)
(* Register list pre-processing.                                           *)
(*                                                                         *)
(* A Python value whose type the program inspects is a record [type,       *)
(* value]: a bit description is an int or a str, a register's raw          *)
(* description is a str (the name alone) or a tuple (name, bit list).      *)
(***************************************************************************)
PyIntV(n) == [type |-> "int", value |-> n]
PyStrV(s) == [type |-> "str", value |-> s]
PyTupleV(t) == [type |-> "tuple", value |-> t]

\* s.split(c, maxsplit); maxsplit = -1 splits at every c.
RECURSIVE split(_, _, _)
split(s, c, maxsplit) ==
    IF maxsplit # 0 /\ \E i \in DOMAIN s : s[i] = c
    THEN LET i == CHOOSE i \in DOMAIN s : s[i] = c /\ \A j \in 1..(i - 1) : s[j] # c
         IN  <<SubSeq(s, 1, i - 1)>> \o split(SubSeq(s, i + 1, Len(s)), c, maxsplit - 1)
    ELSE <<s>>

\* tuple(range(start, stop, -1))
RangeDown(start, stop) ==
    IF start > stop THEN [k \in 1..(start - stop) |-> start - k + 1] ELSE <<>>

\* The bits of one comma separated part of a description: "hi-lo" or "n".
BitsOfPart(bit) ==
    LET bitrange == split(bit, "-", 1)
    IN  IF Len(bitrange) > 1
        THEN RangeDown(PyInt(bitrange[1], 10), PyInt(bitrange[2], 10) - 1)
        ELSE <<PyInt(bit, 10)>>

RECURSIVE MaskOfBits(_, _)
MaskOfBits(bits, mask) ==
    IF bits = <<>> THEN mask
    ELSE MaskOfBits(Tail(bits), Or(mask, Bit(Head(bits))))

RECURSIVE BitsOfParts(_)
BitsOfParts(parts) ==
    IF parts = <<>> THEN <<>>
    ELSE BitsOfPart(Head(parts)) \o BitsOfParts(Tail(parts))

\* defs is a sequence of <<desc, name>>; the result one of <<mask, name>>.
RECURSIVE parsebits(_)
parsebits(defs) ==
    IF defs = <<>> THEN <<>>
    ELSE LET desc == Head(defs)[1]
             val  == Head(defs)[2]
             one  == IF desc.type = "int"
                     THEN <<Bit(desc.value), val>>
                     ELSE <<MaskOfBits(BitsOfParts(split(desc.value, ",", -1)), Zero), val>>
         IN  <<one>> \o parsebits(Tail(defs))

\* One register: "name" becomes (name,); (name, defs) becomes
\* (name, parsebits(defs)).
PreprocInfo(info) ==
    IF info.type = "str" THEN <<info.value>>
    ELSE <<info.value[1], parsebits(info.value[2])>>

preproc(rl) ==
    [name \in DOMAIN rl |-> [addr \in DOMAIN rl[name] |-> PreprocInfo(rl[name][addr])]]

(***************************************************************************)
(* The register maps the program is loaded with.  A machine and an         *)
(* architecture, one register with one-bit fields, one with overlapping    *)
(* ranges, one with a name alone.                                          *)
(***************************************************************************)
\* "boardA"
N_boardA ==
    <<"b","o","a","r","d","A">>
\* "ARCH:armv5"
N_ARCHarmv5 ==
    <<"A","R","C","H",":","a","r","m","v","5">>
\* "CTRL"
N_CTRL ==
    <<"C","T","R","L">>
\* "GPCR"
N_GPCR ==
    <<"G","P","C","R">>
\* "BARE"
N_BARE ==
    <<"B","A","R","E">>
\* "EN"
N_EN ==
    <<"E","N">>
\* "RUN"
N_RUN ==
    <<"R","U","N">>
\* "HI"
N_HI ==
    <<"H","I">>
\* "ODD"
N_ODD ==
    <<"O","D","D">>
\* "B5"
N_B5 ==
    <<"B","5">>
\* "7-4"
D_7_4 ==
    <<"7","-","4">>
\* "3,1"
D_3_1 ==
    <<"3",",","1">>

\* Regs_boardA = {0x1000: ("CTRL", ((0, "EN"), (1, "RUN")))}
Regs_boardA ==
    4096 :> PyTupleV(<<N_CTRL, <<
                <<PyIntV(0), N_EN>>,
                <<PyIntV(1), N_RUN>> >> >>)

\* Regs_armv5 = {0x1000: ("GPCR", (("7-4", "HI"), ("3,1", "ODD"), (5, "B5"))),
\*               0x2000: "BARE"}
Regs_armv5 ==
    (4096 :> PyTupleV(<<N_GPCR, <<
                <<PyStrV(D_7_4), N_HI>>,
                <<PyStrV(D_3_1), N_ODD>>,
                <<PyIntV(5), N_B5>> >> >>))
    @@ (8192 :> PyStrV(N_BARE))

RawRegsList ==
    (N_boardA :> Regs_boardA) @@ (N_ARCHarmv5 :> Regs_armv5)

(***************************************************************************)
(* Parsing: the regular expressions, matched as re.match does (anchored at *)
(* the start, greedy groups, the leftmost group the longest).  A match     *)
(* object is a record of its groups; matched = FALSE stands for None.      *)
(***************************************************************************)
\* "Beginning memory tracing."
S_Begin ==
    <<"B","e","g","i","n","n","i","n","g"," ","m","e","m","o","r","y"," ","t","r","a","c","i","n","g",".">>
\* "Watching "
S_Watching ==
    <<"W","a","t","c","h","i","n","g"," ">>
\* "): Addr "
S_AddrSep ==
    <<")",":"," ","A","d","d","r"," ">>
\* "Detected machine "
S_Detected ==
    <<"D","e","t","e","c","t","e","d"," ","m","a","c","h","i","n","e"," ">>
\* " (Plat="
S_Plat ==
    <<" ","(","P","l","a","t","=">>
\* "mem "
S_mem ==
    <<"m","e","m"," ">>
\* ": "
S_ColonSp ==
    <<":"," ">>
\* "ARCH:"
S_ARCH ==
    <<"A","R","C","H",":">>
NoMatch == [matched |-> FALSE]

\* `mem (?P<vaddr>.*)=(?P<val>.*) \((?P<changed>.*)\)$` from position p:
\* the positions of the `=` and of the ` (` that the greedy groups pick.
MemTail(s, p) ==
    LET cl == ClosePos(s)
        Pars(e) == {q \in (e + 1)..(cl - 2) :
                        StartsAt(s, q, <<" ","(">>) /\ DotStar(s, e + 1, cl - 1)}
        Eqs == {e \in (p + 4)..(cl - 3) :
                        s[e] = "=" /\ DotStar(s, p + 4, e - 1) /\ Pars(e) # {}}
    IN  IF StartsAt(s, p, S_mem) /\ cl >= 1 /\ s[cl] = ")" /\ Eqs # {}
        THEN [matched |-> TRUE, eq |-> Max(Eqs), par |-> Max(Pars(Max(Eqs))), close |-> cl]
        ELSE NoMatch

\* TIMEPRE_S = r'^(?P<time>[0-9]+): ((?P<clock>[0-9a-f]+): )?'
\* re_mem = TIMEPRE_S + r"mem (?P<vaddr>.*)=(?P<val>.*) \((?P<changed>.*)\)$"
\* clockEnd is m.end('clock'): -1 when the group took no part in the match.
re_mem(line) ==
    LET tEnd == RunEnd(line, 1, Range(DecChars))
        cEnd == RunEnd(line, tEnd + 3, Range(HexChars))
        hasTime == tEnd >= 1 /\ StartsAt(line, tEnd + 1, S_ColonSp)
        hasClock == hasTime /\ cEnd >= tEnd + 3 /\ StartsAt(line, cEnd + 1, S_ColonSp)
        p == IF hasClock /\ MemTail(line, cEnd + 3).matched THEN cEnd + 3 ELSE tEnd + 3
        t == MemTail(line, p)
    IN  IF hasTime /\ t.matched
        THEN [matched |-> TRUE, string |-> line,
              time |-> SubSeq(line, 1, tEnd), timeEnd |-> tEnd,
              clockIsNone |-> p = tEnd + 3,
              clock |-> IF p = tEnd + 3 THEN <<>> ELSE SubSeq(line, tEnd + 3, cEnd),
              clockEnd |-> IF p = tEnd + 3 THEN -1 ELSE cEnd,
              vaddr |-> SubSeq(line, p + 4, t.eq - 1),
              val |-> SubSeq(line, t.eq + 1, t.par - 1),
              changed |-> SubSeq(line, t.par + 2, t.close - 1)]
        ELSE NoMatch

\* re_watch = r"^Watching (?P<type>.*)\((?P<pos>\d+)\): Addr (?P<vaddr>.*)\(@(?P<paddr>.*)\)$"
re_watch(line) ==
    LET cl == ClosePos(line)
        \* end of the digits after the `(` at a
        dEnd(a) == RunEnd(line, a + 1, Range(DecChars))
        Ats(a) == {b \in (dEnd(a) + 9)..(cl - 2) :
                        /\ StartsAt(line, b, <<"(","@">>)
                        /\ DotStar(line, dEnd(a) + 9, cl - 1)}
        Opens == {a \in 10..(cl - 12) :
                        /\ line[a] = "("
                        /\ DotStar(line, 10, a - 1)
                        /\ dEnd(a) >= a + 1
                        /\ StartsAt(line, dEnd(a) + 1, S_AddrSep)
                        /\ Ats(a) # {}}
        a == Max(Opens)
        b == Max(Ats(a))
    IN  IF StartsAt(line, 1, S_Watching) /\ cl >= 1 /\ line[cl] = ")" /\ Opens # {}
        THEN [matched |-> TRUE, string |-> line,
              type |-> SubSeq(line, 10, a - 1),
              pos |-> SubSeq(line, a + 1, dEnd(a)),
              vaddr |-> SubSeq(line, dEnd(a) + 9, b - 1),
              paddr |-> SubSeq(line, b + 2, cl - 1)]
        ELSE NoMatch

\* re_begin = r"^Beginning memory tracing\.$"
re_begin(line) ==
    IF line = S_Begin \/ line = S_Begin \o <<"\n">>
    THEN [matched |-> TRUE, string |-> line]
    ELSE NoMatch

\* re_detect = r"^Detected machine (?P<name>.*)/(?P<arch>.*) \(Plat=.*\)$"
re_detect(line) ==
    LET cl == ClosePos(line)
        Plats(sl) == {q \in (sl + 1)..(cl - 7) :
                        StartsAt(line, q, S_Plat) /\ DotStar(line, sl + 1, cl - 1)}
        Slashes == {sl \in 18..(cl - 8) :
                        line[sl] = "/" /\ DotStar(line, 18, sl - 1) /\ Plats(sl) # {}}
        sl == Max(Slashes)
    IN  IF StartsAt(line, 1, S_Detected) /\ cl >= 1 /\ line[cl] = ")" /\ Slashes # {}
        THEN [matched |-> TRUE, string |-> line,
              name |-> SubSeq(line, 18, sl - 1),
              arch |-> SubSeq(line, sl + 1, Max(Plats(sl)) - 1)]
        ELSE NoMatch

(***************************************************************************)
(* The lines fed to the program.  One run draws its lines from one pool.   *)
(***************************************************************************)
\* "Beginning memory tracing."
L_Begin ==
    <<"B","e","g","i","n","n","i","n","g"," ","m","e","m","o","r","y"," ","t","r","a","c","i","n","g",".">>
\* "Detected machine boardA/armv5 (Plat=1)"
L_DetA ==
    <<"D","e","t","e","c","t","e","d"," ","m","a","c","h","i","n","e"," ","b","o","a","r","d","A","/","a","r","m","v","5"," ","(","P","l","a","t","=","1",")">>
\* "Detected machine boardX/armv5 (Plat=1)"
L_DetX ==
    <<"D","e","t","e","c","t","e","d"," ","m","a","c","h","i","n","e"," ","b","o","a","r","d","X","/","a","r","m","v","5"," ","(","P","l","a","t","=","1",")">>
\* "Detected machine boardX/mips (Plat=1)"
L_DetNone ==
    <<"D","e","t","e","c","t","e","d"," ","m","a","c","h","i","n","e"," ","b","o","a","r","d","X","/","m","i","p","s"," ","(","P","l","a","t","=","1",")">>
\* "Watching REG(0): Addr V1(@1000)"
L_W1 ==
    <<"W","a","t","c","h","i","n","g"," ","R","E","G","(","0",")",":"," ","A","d","d","r"," ","V","1","(","@","1","0","0","0",")">>
\* "Watching (1): Addr V1(@3000)"
L_W1b ==
    <<"W","a","t","c","h","i","n","g"," ","(","1",")",":"," ","A","d","d","r"," ","V","1","(","@","3","0","0","0",")">>
\* "Watching REG(0): Addr V2(@2000)"
L_W2bare ==
    <<"W","a","t","c","h","i","n","g"," ","R","E","G","(","0",")",":"," ","A","d","d","r"," ","V","2","(","@","2","0","0","0",")">>
\* "Watching REG(0): Addr V2(@zz)"
L_W2bad ==
    <<"W","a","t","c","h","i","n","g"," ","R","E","G","(","0",")",":"," ","A","d","d","r"," ","V","2","(","@","z","z",")">>
\* "mem V1=3 (3)"
L_MemNoTime ==
    <<"m","e","m"," ","V","1","=","3"," ","(","3",")">>
\* "0: mem V1=3 (3)"
L_M33 ==
    <<"0",":"," ","m","e","m"," ","V","1","=","3"," ","(","3",")">>
\* "0: mem V1=3 (0)"
L_M30 ==
    <<"0",":"," ","m","e","m"," ","V","1","=","3"," ","(","0",")">>
\* "1500: 100: mem V1=f4 (30)"
L_C100 ==
    <<"1","5","0","0",":"," ","1","0","0",":"," ","m","e","m"," ","V","1","=","f","4"," ","(","3","0",")">>
\* "1505: 105: mem V2=3 (1)"
L_C105 ==
    <<"1","5","0","5",":"," ","1","0","5",":"," ","m","e","m"," ","V","2","=","3"," ","(","1",")">>
\* "1510: 10a: mem V1=0 (0)"
L_C10a ==
    <<"1","5","1","0",":"," ","1","0","a",":"," ","m","e","m"," ","V","1","=","0"," ","(","0",")">>
\* "1520: 50: mem V2=1 (1)"
L_C50 ==
    <<"1","5","2","0",":"," ","5","0",":"," ","m","e","m"," ","V","2","=","1"," ","(","1",")">>
\* "1530: 200: mem V1=zz (1)"
L_Bad ==
    <<"1","5","3","0",":"," ","2","0","0",":"," ","m","e","m"," ","V","1","=","z","z"," ","(","1",")">>
\* "1530: 200: mem V1=1 (zz)"
L_BadChg ==
    <<"1","5","3","0",":"," ","2","0","0",":"," ","m","e","m"," ","V","1","=","1"," ","(","z","z",")">>
\* "Beginning memory tracing.\n": the line with its newline
L_BeginNL ==
    <<"B","e","g","i","n","n","i","n","g"," ","m","e","m","o","r","y"," ","t","r","a","c","i","n","g",".","\n">>
\* "hello  "
L_Other ==
    <<"h","e","l","l","o"," "," ">>
\* "Watching IO(2): Addr V1(@1000)"
L_W1p ==
    <<"W","a","t","c","h","i","n","g"," ","I","O","(","2",")",":"," ","A","d","d","r"," ","V","1","(","@","1","0","0","0",")">>

\* Watches of one address, replaced and reset, and a line that only looks
\* like a memory line.
PoolWatch == {L_DetA, L_Begin, L_BeginNL, L_W1, L_W1b, L_M33, L_MemNoTime}
\* The three outcomes of a detect line.
PoolDetect == {L_DetA, L_DetX, L_DetNone, L_W1, L_M33, L_M30}
\* Lines with a clock, of a watched and of an unwatched address.
PoolClock == {L_Begin, L_W1, L_C100, L_C105, L_C10a, L_C50, L_Bad}
\* Lines that raise, and a line no expression matches.
PoolErrors == {L_DetX, L_W1, L_W2bare, L_W2bad, L_BadChg, L_C105, L_Other}
Pools == {PoolWatch, PoolDetect, PoolClock, PoolErrors}

\* Memory lines of the address V1 for every value and changed mask over
\* these bit positions: named, unnamed and overlapping bits of the
\* registers above, and the top bit of a register.
DispBits == {0, 1, 4, 5, 31}
MemLine(val, changed) ==
    <<"0">> \o S_ColonSp \o S_mem \o <<"V","1","=">> \o FmtHex(val)
        \o <<" ","(">> \o FmtHex(changed) \o <<")">>
DispLines == {MemLine(Bits(v), Bits(c)) : v \in SUBSET DispBits, c \in SUBSET DispBits}
\* The lines that put the watch of V1 in place: a register of one-bit
\* fields, one of overlapping fields in the third word of a watch, and an
\* address no register map names.
DispSetups == {<<L_DetA, L_W1>>, <<L_DetX, L_W1p>>, <<L_W1b>>}

AllLines == UNION Pools \cup DispLines \cup {L_W1p}

\* What each expression of procline answers on each line.
Match ==
    [line \in AllLines |->
        [mem |-> re_mem(line), watch |-> re_watch(line),
         begin |-> re_begin(line), detect |-> re_detect(line)]]

(***************************************************************************)
(* Memory display.                                                         *)
(***************************************************************************)
\* A getClock that leaves LastClock alone, which the code does not.
getClock_NoStore(m, lastClock) ==
    LET t == FmtSeconds(PyInt(m.time, 10))
        clock == PyInt(m.clock, 16)
    IN  IF m.clockIsNone
        THEN [ret |-> t, LastClock |-> lastClock]
        ELSE [ret |-> t \o <<"(">> \o FmtNum0(clock - lastClock, 10, 7) \o <<")">>,
              LastClock |-> lastClock]

\* A getClock that prints the clock itself, which the code does not.
getClock_Absolute(m, lastClock) ==
    LET t == FmtSeconds(PyInt(m.time, 10))
        clock == PyInt(m.clock, 16)
    IN  IF m.clockIsNone
        THEN [ret |-> t, LastClock |-> lastClock]
        ELSE [ret |-> t \o <<"(">> \o FmtNum0(clock, 10, 7) \o <<")">>,
              LastClock |-> clock]

\* getClock(m) with LastClock = lastClock: the text it returns and the
\* LastClock it leaves.
getClock(m, lastClock) ==
    LET t == FmtSeconds(PyInt(m.time, 10))
        clock == PyInt(m.clock, 16)
    IN  IF m.clockIsNone
        THEN [ret |-> t, LastClock |-> lastClock]
        ELSE [ret |-> t \o <<"(">> \o FmtNum0(clock - lastClock, 10, 7) \o <<")">>,
              LastClock |-> clock]

\* memDisplay.__init__ raises IndexError on a register description that
\* is a name alone: reginfo[1] does not exist.
memDisplayRaises(reginfo) == Len(reginfo) < 2

memDisplay(reginfo, type, pos) ==
    [type |-> IF type # <<>> THEN <<" ">> \o type ELSE <<>>,
     pos |-> pos,
     name |-> reginfo[1],
     bitdefs |-> reginfo[2]]

\* A loop that leaves each bit of val in its place, which the code does not.
RECURSIVE ScanBits_InPlace(_, _, _, _, _, _, _)
ScanBits_InPlace(i, bits, val, changed, count, outval, pos) ==
    IF i >= 32 THEN [outval |-> outval, pos |-> pos]
    ELSE IF And(Bit(i), bits) # Zero
         THEN ScanBits_InPlace(i + 1, bits, val, changed, count + 1,
                       IF And(Bit(i), val) # Zero THEN Or(outval, Bit(i)) ELSE outval,
                       IF And(Bit(i), changed) # Zero THEN Append(pos, i) ELSE pos)
         ELSE ScanBits_InPlace(i + 1, bits, val, changed, count, outval, pos)

\* The loop of getValue over the bits i..31.
RECURSIVE ScanBits(_, _, _, _, _, _, _)
ScanBits(i, bits, val, changed, count, outval, pos) ==
    IF i >= 32 THEN [outval |-> outval, pos |-> pos]
    ELSE IF And(Bit(i), bits) # Zero
         THEN ScanBits(i + 1, bits, val, changed, count + 1,
                       IF And(Bit(i), val) # Zero THEN Or(outval, Bit(count)) ELSE outval,
                       IF And(Bit(i), changed) # Zero THEN Append(pos, i) ELSE pos)
         ELSE ScanBits(i + 1, bits, val, changed, count, outval, pos)

\* A getValue that always adds the ignore list, which the code does not.
getValue_AlwaysIgnoreList(self, desc, bits, val, changed, add_il) ==
    LET r == ScanBits(0, bits, val, changed, 0, Zero, <<>>)
        ignorelist == Join(<<" ">>, [k \in DOMAIN r.pos |->
                                        FmtNum(self.pos * 32 + r.pos[k], 10)])
    IN  <<" ">> \o desc \o <<"(">> \o ignorelist \o <<")","=">> \o FmtHex(r.outval)

\* memDisplay.getValue
getValue(self, desc, bits, val, changed, add_il) ==
    LET r == ScanBits(0, bits, val, changed, 0, Zero, <<>>)
        ignorelist == Join(<<" ">>, [k \in DOMAIN r.pos |->
                                        FmtNum(self.pos * 32 + r.pos[k], 10)])
    IN  IF add_il # 0
        THEN <<" ">> \o desc \o <<"(">> \o ignorelist \o <<")","=">> \o FmtHex(r.outval)
        ELSE <<" ">> \o desc \o <<"=">> \o FmtHex(r.outval)

\* One call of getValue: its arguments, what its loop computed, its result.
Fragment(self, desc, bits, val, changed, add_il) ==
    LET r == ScanBits(0, bits, val, changed, 0, Zero, <<>>)
    IN  [desc |-> desc, bits |-> bits, val |-> val, changed |-> changed, add_il |-> add_il,
         outval |-> r.outval, pos |-> r.pos,
         text |-> getValue(self, desc, bits, val, changed, add_il)]

\* A loop that skips a field when another field has taken its changed
\* bits, which the code does not.
RECURSIVE FieldLoop_SkipTaken(_, _, _, _, _, _, _)
FieldLoop_SkipTaken(self, bitdefs, val, changed, notfirst, unnamedbits, calls) ==
    IF bitdefs = <<>> THEN [calls |-> calls, unnamedbits |-> unnamedbits]
    ELSE LET bits == Head(bitdefs)[1]
             desc == Head(bitdefs)[2]
         IN  IF And(bits, unnamedbits) # Zero
             THEN FieldLoop_SkipTaken(self, Tail(bitdefs), val, changed, notfirst,
                            And(unnamedbits, Not(bits)),
                            Append(calls, Fragment(self, desc, bits, val, changed, notfirst)))
             ELSE FieldLoop_SkipTaken(self, Tail(bitdefs), val, changed, notfirst,
                                      unnamedbits, calls)

\* The loop of displayFunc over self.bitdefs.
RECURSIVE FieldLoop(_, _, _, _, _, _, _)
FieldLoop(self, bitdefs, val, changed, notfirst, unnamedbits, calls) ==
    IF bitdefs = <<>> THEN [calls |-> calls, unnamedbits |-> unnamedbits]
    ELSE LET bits == Head(bitdefs)[1]
             desc == Head(bitdefs)[2]
         IN  IF And(bits, changed) # Zero
             THEN FieldLoop(self, Tail(bitdefs), val, changed, notfirst,
                            And(unnamedbits, Not(bits)),
                            Append(calls, Fragment(self, desc, bits, val, changed, notfirst)))
             ELSE FieldLoop(self, Tail(bitdefs), val, changed, notfirst, unnamedbits, calls)

\* int(m.group('val'), 16) or int(m.group('changed'), 16) raises ValueError.
displayFuncRaises(m) == ~IsInt(m.val, 16) \/ ~IsInt(m.changed, 16)

\* A notfirst that also takes changed == val for the start of a trace, which
\* the code does not.
NotFirst_WhenChangedDiffers(val, changed) == IF changed = Zero \/ changed = val THEN 0 ELSE 1
\* displayFunc: notfirst, 0 at the start of a trace ("if not changed").
NotFirst(val, changed) == IF changed = Zero THEN 0 ELSE 1

\* displayFunc: the changed bits the fields are picked by, val itself at the
\* start of a trace.
EffectiveChanged(val, changed) == IF changed = Zero THEN val ELSE changed

\* A "?" call that passes val whole, which the code does not.
UnnamedFragment_WholeValue(self, val, unnamedbits, notfirst) ==
    Fragment(self, <<"?">>, Not(Zero), val, unnamedbits, notfirst)
\* displayFunc: the getValue call for the changed bits no field names.
UnnamedFragment(self, val, unnamedbits, notfirst) ==
    Fragment(self, <<"?">>, Not(Zero), And(val, unnamedbits), unnamedbits, notfirst)

\* The two prints of displayFunc the other way round, which the code does
\* not do.
DisplayLine_Swapped(self, clk, val, outtext, notfirst) ==
    IF notfirst = 0
    THEN clk \o self.type \o <<" ">> \o FmtStr(self.name, 8) \o <<":">> \o outtext
    ELSE clk \o self.type \o <<" ">> \o FmtStr(self.name, 8)
             \o <<"=">> \o FmtHex0(val, 8) \o <<":">> \o outtext
\* displayFunc: the line it prints, clk being what getClock(m) returned.
DisplayLine(self, clk, val, outtext, notfirst) ==
    IF notfirst # 0
    THEN clk \o self.type \o <<" ">> \o FmtStr(self.name, 8) \o <<":">> \o outtext
    ELSE clk \o self.type \o <<" ">> \o FmtStr(self.name, 8)
             \o <<"=">> \o FmtHex0(val, 8) \o <<":">> \o outtext

\* displayFunc(self, m) with LastClock = lastClock: the lines it prints,
\* its calls of getValue, the LastClock it leaves.
displayFunc(self, m, lastClock) ==
    LET val == HexBits(m.val)
        notfirst == NotFirst(val, HexBits(m.changed))
        changed == EffectiveChanged(val, HexBits(m.changed))
        loop == FieldLoop(self, self.bitdefs, val, changed, notfirst, changed, <<>>)
        calls == IF loop.unnamedbits # Zero
                 THEN Append(loop.calls,
                             UnnamedFragment(self, val, loop.unnamedbits, notfirst))
                 ELSE loop.calls
        outtext == Concat([k \in DOMAIN calls |-> calls[k].text])
        clk == getClock(m, lastClock)
    IN  [out |-> <<DisplayLine(self, clk.ret, val, outtext, notfirst)>>,
         frags |-> calls,
         LastClock |-> clk.LastClock]

\* A defaultFunc that always cuts after the time, which the code does only
\* for a line without a clock.
defaultFunc_AfterTime(m, lastClock) ==
    LET e == m.timeEnd
        clk == getClock(m, lastClock)
    IN  [out |-> <<clk.ret \o <<" ">> \o SubSeq(m.string, e + 6 + 1, Len(m.string))>>,
         frags |-> <<>>,
         LastClock |-> clk.LastClock]

\* defaultFunc(m) with LastClock = lastClock.
defaultFunc(m, lastClock) ==
    LET e == IF m.clockEnd < 0 THEN m.timeEnd ELSE m.clockEnd
        clk == getClock(m, lastClock)
    IN  [out |-> <<clk.ret \o <<" ">> \o SubSeq(m.string, e + 6 + 1, Len(m.string))>>,
         frags |-> <<>>,
         LastClock |-> clk.LastClock]

(***************************************************************************)
(* The program's state, and procline.                                      *)
(***************************************************************************)
VARIABLES
    RegsList,   \* the register maps, after preproc
    LastClock,  \* the last clock value a line gave
    VirtMap,    \* vaddr -> the memDisplay whose displayFunc is stored
    ArchRegs,   \* the register map of the detected machine
    out,        \* the lines the last call of procline printed
    frags,      \* the calls of getValue the last call of procline made
    raised,     \* the exception the last call of procline raised, or ""
    hist,       \* the lines processed so far, each with what it raised
    pool,       \* the lines this run draws from
    imported,   \* the register maps the imports left in RegsList
    pc          \* "load" until the module has run preproc(), then "run";
                \* "failed" when preproc() raised

vars == <<RegsList, LastClock, VirtMap, ArchRegs, out, frags, raised, hist, pool, imported, pc>>

EmptyDict == <<>>

\* d[k] = v
DictSet(d, k, v) == [x \in DOMAIN d \cup {k} |-> IF x = k THEN v ELSE d[x]]

Init ==
    /\ RegsList = preproc(RawRegsList)
    /\ LastClock = 0
    /\ VirtMap = EmptyDict
    /\ ArchRegs = EmptyDict
    /\ out = <<>>
    /\ frags = <<>>
    /\ raised = ""
    /\ hist = <<>>
    /\ pool \in Pools
    /\ imported = RawRegsList
    /\ pc = "run"

\* The call returned: what it printed, and nothing raised.
Returns(line, printed, calls) ==
    /\ out' = printed
    /\ frags' = calls
    /\ raised' = ""
    /\ hist' = Append(hist, [line |-> line, raised |-> ""])
    /\ UNCHANGED <<imported, pc>>

\* The call raised exc before it printed anything.
Raises(line, exc) ==
    /\ out' = <<>>
    /\ frags' = <<>>
    /\ raised' = exc
    /\ hist' = Append(hist, [line |-> line, raised |-> exc])
    /\ UNCHANGED <<imported, pc>>

\* The module is loaded and the run has lines left.
MoreLines == pc = "run" /\ Len(hist) < MaxLines

\* A displayFunc that calls getClock(m) before it reads val and changed,
\* which the code does not.
Mem_ClockFirst(line) ==
    LET m == Match[line].mem
    IN  /\ MoreLines
        /\ m.matched
        /\ IF m.vaddr \in DOMAIN VirtMap /\ displayFuncRaises(m)
           THEN Raises(line, "ValueError") /\ LastClock' = getClock(m, LastClock).LastClock
           ELSE \E r \in {IF m.vaddr \in DOMAIN VirtMap
                           THEN displayFunc(VirtMap[m.vaddr], m, LastClock)
                           ELSE defaultFunc(m, LastClock)} :
                    Returns(line, r.out, r.frags) /\ LastClock' = r.LastClock
        /\ UNCHANGED <<RegsList, VirtMap, ArchRegs, pool>>

\* procline, line matched by re_mem: VirtMap.get(vaddr, defaultFunc)(m)
Mem(line) ==
    LET m == Match[line].mem
    IN  /\ MoreLines
        /\ m.matched
        /\ IF m.vaddr \in DOMAIN VirtMap /\ displayFuncRaises(m)
           THEN Raises(line, "ValueError") /\ UNCHANGED LastClock
           ELSE \E r \in {IF m.vaddr \in DOMAIN VirtMap
                           THEN displayFunc(VirtMap[m.vaddr], m, LastClock)
                           ELSE defaultFunc(m, LastClock)} :
                    Returns(line, r.out, r.frags) /\ LastClock' = r.LastClock
        /\ UNCHANGED <<RegsList, VirtMap, ArchRegs, pool>>

\* handleWatch(m): the register description the watch displays with, the
\* one ArchRegs has for paddr or a "dummy" one named after vaddr.
WatchRegInfo(m, archRegs) ==
    IF PyInt(m.paddr, 16) \in DOMAIN archRegs
    THEN archRegs[PyInt(m.paddr, 16)]
    ELSE <<m.vaddr, <<>> >>

\* handleWatch(m): what raises in it.
handleWatchRaises(m, archRegs) ==
    IF ~IsInt(m.paddr, 16) THEN "ValueError"
    ELSE IF memDisplayRaises(WatchRegInfo(m, archRegs)) THEN "IndexError"
    ELSE ""

\* A handleWatch that keeps the entry vaddr already has, which the code
\* does not.
handleWatch_KeepFirst(m, archRegs, virtMap) ==
    IF m.vaddr \in DOMAIN virtMap THEN virtMap
    ELSE DictSet(virtMap, m.vaddr,
                 memDisplay(WatchRegInfo(m, archRegs), m.type, PyInt(m.pos, 10)))

\* handleWatch(m): VirtMap[vaddr] = md.displayFunc
handleWatch(m, archRegs, virtMap) ==
    DictSet(virtMap, m.vaddr,
            memDisplay(WatchRegInfo(m, archRegs), m.type, PyInt(m.pos, 10)))

\* procline, line matched by re_watch: handleWatch(m)
Watch(line) ==
    LET m == Match[line].watch
    IN  /\ MoreLines
        /\ ~Match[line].mem.matched
        /\ m.matched
        /\ IF handleWatchRaises(m, ArchRegs) # ""
           THEN Raises(line, handleWatchRaises(m, ArchRegs)) /\ UNCHANGED VirtMap
           ELSE /\ VirtMap' = handleWatch(m, ArchRegs, VirtMap)
                /\ Returns(line, <<m.string>>, <<>>)
        /\ UNCHANGED <<RegsList, LastClock, ArchRegs, pool>>

\* A handleBegin without VirtMap.clear(), which the code has.
Begin_KeepWatches(line) ==
    LET m == Match[line].begin
    IN  /\ MoreLines
        /\ ~Match[line].mem.matched
        /\ ~Match[line].watch.matched
        /\ m.matched
        /\ LastClock' = 0
        /\ Returns(line, <<m.string>>, <<>>)
        /\ UNCHANGED <<RegsList, VirtMap, ArchRegs, pool>>

\* A handleBegin that also empties ArchRegs, which the code does not.
Begin_ResetArch(line) ==
    LET m == Match[line].begin
    IN  /\ MoreLines
        /\ ~Match[line].mem.matched
        /\ ~Match[line].watch.matched
        /\ m.matched
        /\ LastClock' = 0
        /\ VirtMap' = EmptyDict
        /\ ArchRegs' = EmptyDict
        /\ Returns(line, <<m.string>>, <<>>)
        /\ UNCHANGED <<RegsList, pool>>

\* procline, line matched by re_begin: handleBegin(m)
Begin(line) ==
    LET m == Match[line].begin
    IN  /\ MoreLines
        /\ ~Match[line].mem.matched
        /\ ~Match[line].watch.matched
        /\ m.matched
        /\ LastClock' = 0
        /\ VirtMap' = EmptyDict
        /\ Returns(line, <<m.string>>, <<>>)
        /\ UNCHANGED <<RegsList, ArchRegs, pool>>

\* A lookup that tries "ARCH:" + arch first, which the code does not.
ArchRegsFor_ArchFirst(regsList, name, arch) ==
    IF (S_ARCH \o arch) \in DOMAIN regsList THEN regsList[S_ARCH \o arch]
    ELSE IF name \in DOMAIN regsList THEN regsList[name]
    ELSE EmptyDict

\* RegsList.get(name), and RegsList.get("ARCH:" + arch, {}) when that is None
ArchRegsFor(regsList, name, arch) ==
    IF name \in DOMAIN regsList THEN regsList[name]
    ELSE IF (S_ARCH \o arch) \in DOMAIN regsList THEN regsList[S_ARCH \o arch]
    ELSE EmptyDict

\* A handleDetect that empties the dictionary ArchRegs is bound to before
\* it binds the new one (ArchRegs.clear()), which the code does not: the
\* dictionary is the one RegsList holds.
Detect_ClearInPlace(line) ==
    LET m == Match[line].detect
        cleared == [k \in DOMAIN RegsList |->
                        IF RegsList[k] = ArchRegs THEN EmptyDict ELSE RegsList[k]]
    IN  /\ MoreLines
        /\ ~Match[line].mem.matched
        /\ ~Match[line].watch.matched
        /\ ~Match[line].begin.matched
        /\ m.matched
        /\ RegsList' = cleared
        /\ ArchRegs' = ArchRegsFor(cleared, m.name, m.arch)
        /\ Returns(line, <<m.string>>, <<>>)
        /\ UNCHANGED <<LastClock, VirtMap, pool>>

\* A handleDetect that drops the watches made so far, which the code does
\* not.
Detect_DropWatches(line) ==
    LET m == Match[line].detect
    IN  /\ MoreLines
        /\ ~Match[line].mem.matched
        /\ ~Match[line].watch.matched
        /\ ~Match[line].begin.matched
        /\ m.matched
        /\ ArchRegs' = ArchRegsFor(RegsList, m.name, m.arch)
        /\ VirtMap' = EmptyDict
        /\ Returns(line, <<m.string>>, <<>>)
        /\ UNCHANGED <<RegsList, LastClock, pool>>

\* A handleDetect that keeps ArchRegs when RegsList has no map for the
\* machine, which the code does not.
Detect_KeepOnMiss(line) ==
    LET m == Match[line].detect
    IN  /\ MoreLines
        /\ ~Match[line].mem.matched
        /\ ~Match[line].watch.matched
        /\ ~Match[line].begin.matched
        /\ m.matched
        /\ ArchRegs' = IF ArchRegsFor(RegsList, m.name, m.arch) = EmptyDict
                       THEN ArchRegs
                       ELSE ArchRegsFor(RegsList, m.name, m.arch)
        /\ Returns(line, <<m.string>>, <<>>)
        /\ UNCHANGED <<RegsList, LastClock, VirtMap, pool>>

\* procline, line matched by re_detect: handleDetect(m)
Detect(line) ==
    LET m == Match[line].detect
    IN  /\ MoreLines
        /\ ~Match[line].mem.matched
        /\ ~Match[line].watch.matched
        /\ ~Match[line].begin.matched
        /\ m.matched
        /\ ArchRegs' = ArchRegsFor(RegsList, m.name, m.arch)
        /\ Returns(line, <<m.string>>, <<>>)
        /\ UNCHANGED <<RegsList, LastClock, VirtMap, pool>>

\* A pass-through that prints the line as it is, which the code does not.
PassThrough_NoStrip(line) ==
    /\ MoreLines
    /\ ~Match[line].mem.matched
    /\ ~Match[line].watch.matched
    /\ ~Match[line].begin.matched
    /\ ~Match[line].detect.matched
    /\ Returns(line, <<line>>, <<>>)
    /\ UNCHANGED <<RegsList, LastClock, VirtMap, ArchRegs, pool>>

\* procline, no expression matched: print line.rstrip()
PassThrough(line) ==
    /\ MoreLines
    /\ ~Match[line].mem.matched
    /\ ~Match[line].watch.matched
    /\ ~Match[line].begin.matched
    /\ ~Match[line].detect.matched
    /\ Returns(line, <<rstrip(line)>>, <<>>)
    /\ UNCHANGED <<RegsList, LastClock, VirtMap, ArchRegs, pool>>

\* One call of procline, on a line of the run's pool.
Next ==
    \/ \E line \in pool : Mem(line)
    \/ \E line \in pool : Watch(line)
    \/ \E line \in pool : Begin(line)
    \/ \E line \in pool : Detect(line)
    \/ \E line \in pool : PassThrough(line)

Spec == Init /\ [][Next]_vars

(***************************************************************************)
(* displayFunc on its own: the state a detect line and a watch line of V1  *)
(* leave, then one memory line of V1 fed again and again.                  *)
(***************************************************************************)
SetupArchRegs(setup) ==
    IF Len(setup) = 2
    THEN ArchRegsFor(preproc(RawRegsList), Match[setup[1]].detect.name,
                     Match[setup[1]].detect.arch)
    ELSE EmptyDict

InitDisp ==
    \E setup \in DispSetups :
        /\ RegsList = preproc(RawRegsList)
        /\ LastClock = 0
        /\ ArchRegs = SetupArchRegs(setup)
        /\ VirtMap = handleWatch(Match[setup[Len(setup)]].watch, SetupArchRegs(setup),
                                 EmptyDict)
        /\ out = <<setup[Len(setup)]>>
        /\ frags = <<>>
        /\ raised = ""
        /\ hist = [i \in DOMAIN setup |-> [line |-> setup[i], raised |-> ""]]
        /\ \E line \in DispLines : pool = {line}
        /\ imported = RawRegsList
        /\ pc = "run"

NextDisp == \E line \in pool : Mem(line)

SpecDisp == InitDisp /\ [][NextDisp]_vars


(***************************************************************************)
(* Loading the module: the imports leave register maps in RegsList, then   *)
(* the module calls preproc().  The maps are one register of boardA with   *)
(* one or two fields, of every bit description below, or with a name       *)
(* alone.                                                                  *)
(***************************************************************************)
\* "7-4,1"
D_7_4_1 ==
    <<"7","-","4",",","1">>
\* "4-7"
D_4_7 ==
    <<"4","-","7">>
\* "31-28"
D_31_28 ==
    <<"3","1","-","2","8">>
\* "2-2"
D_2_2 ==
    <<"2","-","2">>
\* "x"
D_x ==
    <<"x">>

LoadDescs ==
    {PyIntV(0), PyIntV(5), PyIntV(31), PyStrV(D_7_4), PyStrV(D_3_1), PyStrV(D_7_4_1),
     PyStrV(D_4_7), PyStrV(D_31_28), PyStrV(D_2_2), PyStrV(D_x)}
LoadDefs ==
    {<< <<d, N_EN>> >> : d \in LoadDescs}
        \cup {<< <<d[1], N_EN>>, <<d[2], N_RUN>> >> : d \in LoadDescs \X LoadDescs}
LoadRegsLists ==
    {N_boardA :> (4096 :> PyTupleV(<<N_CTRL, defs>>)) : defs \in LoadDefs}
        \cup {N_boardA :> (4096 :> PyStrV(N_BARE))}

\* parsebits: an int(...) of one comma separated part raises ValueError.
BitsOfPartRaises(bit) ==
    LET bitrange == split(bit, "-", 1)
    IN  IF Len(bitrange) > 1
        THEN ~IsInt(bitrange[1], 10) \/ ~IsInt(bitrange[2], 10)
        ELSE ~IsInt(bit, 10)
parsebitsRaises(defs) ==
    \E k \in DOMAIN defs :
        /\ defs[k][1].type = "str"
        /\ \E part \in Range(split(defs[k][1].value, ",", -1)) : BitsOfPartRaises(part)
preprocRaises(rl) ==
    \E name \in DOMAIN rl : \E addr \in DOMAIN rl[name] :
        rl[name][addr].type # "str" /\ parsebitsRaises(rl[name][addr].value[2])

InitLoad ==
    /\ imported \in LoadRegsLists
    /\ RegsList = imported
    /\ LastClock = 0
    /\ VirtMap = EmptyDict
    /\ ArchRegs = EmptyDict
    /\ out = <<>>
    /\ frags = <<>>
    /\ raised = ""
    /\ hist = <<>>
    /\ pool = {}
    /\ pc = "load"

\* The module's call of preproc(): RegsList is assigned when all of it is
\* processed.
Load ==
    /\ pc = "load"
    /\ IF preprocRaises(RegsList)
       THEN raised' = "ValueError" /\ pc' = "failed" /\ UNCHANGED RegsList
       ELSE RegsList' = preproc(RegsList) /\ pc' = "run" /\ UNCHANGED raised
    /\ UNCHANGED <<LastClock, VirtMap, ArchRegs, out, frags, hist, pool, imported>>

NextLoad == Load

SpecLoad == InitLoad /\ [][NextLoad]_vars

(***************************************************************************)
(* getValue on its own: one call on the memDisplay a watch line of V1      *)
(* stored (word 0 or word 2 of a watch), for field masks of one bit, of    *)
(* scattered bits, of a range, of the top bit and of all bits.             *)
(***************************************************************************)
ValueMasks ==
    {Bits({0}), Bits({1, 3}), Bits({4, 5, 6, 7}), Bits({2, 3, 5}), Bits({31}), Not(Zero)}
ValueBits == {1, 3, 5, 6, 31}
ChangedBits == {1, 3, 31}
ValueSetups == {L_W1, L_W1p}

InitValue ==
    \E line \in ValueSetups :
        /\ RegsList = preproc(RawRegsList)
        /\ LastClock = 0
        /\ ArchRegs = EmptyDict
        /\ VirtMap = handleWatch(Match[line].watch, EmptyDict, EmptyDict)
        /\ out = <<line>>
        /\ frags = <<>>
        /\ raised = ""
        /\ hist = <<[line |-> line, raised |-> ""]>>
        /\ pool = {}
        /\ imported = RawRegsList
        /\ pc = "run"

\* One call self.getValue("F", bits, val, changed, add_il).
CallGetValue ==
    /\ pc = "run"
    /\ frags = <<>>
    /\ \E self \in Range(VirtMap), bits \in ValueMasks, val \in SUBSET ValueBits,
          changed \in SUBSET ChangedBits, add_il \in {0, 1} :
            frags' = <<Fragment(self, <<"F">>, bits, Bits(val), Bits(changed), add_il)>>
    /\ UNCHANGED <<RegsList, LastClock, VirtMap, ArchRegs, out, raised, hist, pool,
                   imported, pc>>

NextValue == CallGetValue

SpecValue == InitValue /\ [][NextValue]_vars

(***************************************************************************)
(* The properties.  They read the lines processed so far from hist.        *)
(***************************************************************************)
\* Which branch of procline a line takes.
Kind(line) ==
    IF Match[line].mem.matched THEN "mem"
    ELSE IF Match[line].watch.matched THEN "watch"
    ELSE IF Match[line].begin.matched THEN "begin"
    ELSE IF Match[line].detect.matched THEN "detect"
    ELSE "other"

Lines(h) == [i \in DOMAIN h |-> h[i].line]

\* The place of the last begin line among h[1..n], 0 when there is none.
LastBegin(h, n) == Max({0} \cup {i \in 1..n : Kind(h[i].line) = "begin"})

\* The places in lo..hi of the watch lines of the address v that procline
\* handled without raising.
WatchesOf(h, v, lo, hi) ==
    {i \in lo..hi : /\ i \in DOMAIN h
                    /\ Kind(h[i].line) = "watch"
                    /\ h[i].raised = ""
                    /\ Match[h[i].line].watch.vaddr = v}

\* The register map the last detect line among h[1..n] selects.
ArchRegsAt(h, n) ==
    LET D == {i \in 1..n : Kind(h[i].line) = "detect"}
    IN  IF D = {} THEN EmptyDict
        ELSE ArchRegsFor(RegsList, Match[h[Max(D)].line].detect.name,
                         Match[h[Max(D)].line].detect.arch)

\* The memDisplay the watch line h[i] builds.
WatchDisplayAt(h, i) ==
    memDisplay(WatchRegInfo(Match[h[i].line].watch, ArchRegsAt(h, i - 1)),
               Match[h[i].line].watch.type, PyInt(Match[h[i].line].watch.pos, 10))

\* The last call of procline was a call of displayFunc that returned.
Displayed ==
    /\ Len(hist) > 0
    /\ Kind(hist[Len(hist)].line) = "mem"
    /\ hist[Len(hist)].raised = ""
    /\ Match[hist[Len(hist)].line].mem.vaddr \in DOMAIN VirtMap

\* What that call was given.
LastMem == Match[hist[Len(hist)].line].mem
LastVal == HexBits(LastMem.val)
LastChanged == HexBits(LastMem.changed)
LastDisplay == VirtMap[LastMem.vaddr]

\* The elements of the set of numbers S in increasing order.
RECURSIVE SortedSeq(_)
SortedSeq(S) ==
    IF S = {} THEN <<>>
    ELSE LET lo == CHOOSE x \in S : \A y \in S : x <= y
         IN  <<lo>> \o SortedSeq(S \ {lo})

\* The bits the fields of bitdefs name.
RECURSIVE NamedBits(_)
NamedBits(bitdefs) ==
    IF bitdefs = <<>> THEN Zero ELSE Or(Head(bitdefs)[1], NamedBits(Tail(bitdefs)))

\* "001.500(0000256) V1=f4 (30)"
O_C100 ==
    <<"0","0","1",".","5","0","0","(","0","0","0","0","2","5","6",")"," ","V","1","=","f","4"," ","(","3","0",")">>
\* "001.505(0000005) V2=3 (1)"
O_C105 ==
    <<"0","0","1",".","5","0","5","(","0","0","0","0","0","0","5",")"," ","V","2","=","3"," ","(","1",")">>
\* "001.510(0000005) V1=0 (0)"
O_C10a ==
    <<"0","0","1",".","5","1","0","(","0","0","0","0","0","0","5",")"," ","V","1","=","0"," ","(","0",")">>
\* "001.520(-000176) V2=1 (1)"
O_C50 ==
    <<"0","0","1",".","5","2","0","(","-","0","0","0","1","7","6",")"," ","V","2","=","1"," ","(","1",")">>
\* "000.000 REG     CTRL: EN(0)=1 RUN(1)=1"
O_Annotated ==
    <<"0","0","0",".","0","0","0"," ","R","E","G"," "," "," "," "," ","C","T","R","L",":"," ","E","N","(","0",")","=","1"," ","R","U","N","(","1",")","=","1">>
\* "000.000 REG     CTRL=00000003: EN=1 RUN=1"
O_First ==
    <<"0","0","0",".","0","0","0"," ","R","E","G"," "," "," "," "," ","C","T","R","L","=","0","0","0","0","0","0","0","3",":"," ","E","N","=","1"," ","R","U","N","=","1">>
\* "000.000       V1: ?(32 33)=3"
O_Replaced ==
    <<"0","0","0",".","0","0","0"," "," "," "," "," "," "," ","V","1",":"," ","?","(","3","2"," ","3","3",")","=","3">>

\* C1: a begin line leaves VirtMap empty and LastClock 0; so a memory line
\* of an address watched before the last begin line, with no watch line of
\* it since, is printed by defaultFunc.
C1_BeginStep ==
    LET e == hist'[Len(hist')]
        m == Match[e.line].mem
        b == LastBegin(hist, Len(hist))
    IN  /\ Kind(e.line) = "begin" => VirtMap' = EmptyDict /\ LastClock' = 0
        /\ (/\ Kind(e.line) = "mem"
            /\ b > 0
            /\ WatchesOf(hist, m.vaddr, 1, b - 1) # {}
            /\ WatchesOf(hist, m.vaddr, b + 1, Len(hist)) = {})
           => /\ e.raised = ""
              /\ out' = defaultFunc(m, LastClock).out
              /\ frags' = <<>>
C1_BeginClears == [][C1_BeginStep]_vars

\* C1: V1 is watched and displayed, then a begin line, then the same memory
\* line comes out of defaultFunc, its delta counted from 0.
C1_Witness ==
    /\ Lines(hist) = <<L_W1, L_C100, L_Begin, L_C100>>
    /\ out = <<O_C100>>
    /\ VirtMap = EmptyDict

\* C2: a memory line of the address v is printed by the displayFunc of the
\* memDisplay that the last watch line of v since the last begin line built,
\* and by defaultFunc exactly when there is no such watch line.
C2_DispatchStep ==
    LET e == hist'[Len(hist')]
        m == Match[e.line].mem
        b == LastBegin(hist, Len(hist))
        W == WatchesOf(hist, m.vaddr, b + 1, Len(hist))
    IN  Kind(e.line) = "mem" =>
            IF W = {}
            THEN /\ e.raised = ""
                 /\ out' = defaultFunc(m, LastClock).out
                 /\ frags' = <<>>
            ELSE IF displayFuncRaises(m)
                 THEN e.raised = "ValueError" /\ out' = <<>>
                 ELSE /\ e.raised = ""
                      /\ out' = displayFunc(WatchDisplayAt(hist, Max(W)), m, LastClock).out
                      /\ frags' = displayFunc(WatchDisplayAt(hist, Max(W)), m, LastClock).frags
                      /\ out' # defaultFunc(m, LastClock).out
C2_Dispatch == [][C2_DispatchStep]_vars

\* C2: the second watch line of V1 replaced the memDisplay of the first.
C2_Witness ==
    /\ Lines(hist) = <<L_DetA, L_W1, L_W1b, L_M33>>
    /\ out = <<O_Replaced>>

\* The places of the lines that set LastClock: begin lines, and memory
\* lines with a clock that procline handled without raising.
ClockEvents(h) ==
    {i \in DOMAIN h : \/ Kind(h[i].line) = "begin"
                      \/ /\ Kind(h[i].line) = "mem"
                         /\ h[i].raised = ""
                         /\ ~Match[h[i].line].mem.clockIsNone}
ExpectedClock(h) ==
    IF ClockEvents(h) = {} THEN 0
    ELSE IF Kind(h[Max(ClockEvents(h))].line) = "begin" THEN 0
    ELSE PyInt(Match[h[Max(ClockEvents(h))].line].mem.clock, 16)

\* C3: LastClock is the clock of the last memory line with a clock that was
\* handled without raising since the last begin line, whichever of
\* displayFunc and defaultFunc printed it, and 0 when there is none; no
\* other line changes it.
C3_LastClock == LastClock = ExpectedClock(hist)

\* C3: displayFunc stored 0x100, defaultFunc stored 0x105, and the line
\* whose value displayFunc could not read left that in place.
C3_Witness ==
    /\ Lines(hist) = <<L_W1, L_C100, L_C105, L_Bad>>
    /\ hist[4].raised = "ValueError"
    /\ LastClock = 261

\* C4: a memory line with a clock prints one line, which starts with the
\* time and one delta, the clock minus the LastClock of before the line,
\* and leaves the clock in LastClock; after a begin line the clocks 0x100,
\* 0x105, 0x10a print 256, 5, 5, and a clock below the one before prints a
\* negative delta.
C4_DeltaStep ==
    LET e == hist'[Len(hist')]
        m == Match[e.line].mem
        clock == PyInt(m.clock, 16)
        prefix == FmtSeconds(PyInt(m.time, 10)) \o <<"(">>
                      \o FmtNum0(clock - LastClock, 10, 7) \o <<")">>
    IN  /\ (Kind(e.line) = "mem" /\ e.raised = "" /\ ~m.clockIsNone)
           => /\ Len(out') = 1
              /\ StartsAt(out'[1], 1, prefix \o <<" ">>)
              /\ LastClock' = clock
        /\ Lines(hist') = <<L_Begin, L_C100>> => out' = <<O_C100>>
        /\ Lines(hist') = <<L_Begin, L_C100, L_C105>> => out' = <<O_C105>>
        /\ Lines(hist') = <<L_Begin, L_C100, L_C105, L_C10a>> => out' = <<O_C10a>>
        /\ Lines(hist') = <<L_Begin, L_C100, L_C50>> => out' = <<O_C50>>
C4_Delta == [][C4_DeltaStep]_vars

\* C4: the third clock after a begin line, its delta counted from the second.
C4_Witness ==
    /\ Lines(hist) = <<L_Begin, L_C100, L_C105, L_C10a>>
    /\ out = <<O_C10a>>
    /\ LastClock = 266

\* C5: after a detect line of name n and architecture a, ArchRegs is
\* RegsList[n] if RegsList has n, else RegsList["ARCH:" + a] if it has that,
\* else empty; nothing of the ArchRegs of before is left.
C5_DetectSelects ==
    (Len(hist) > 0 /\ Kind(hist[Len(hist)].line) = "detect") =>
        LET line == hist[Len(hist)].line
            m == Match[line].detect
        IN  /\ ArchRegs = IF m.name \in DOMAIN RegsList THEN RegsList[m.name]
                          ELSE IF (S_ARCH \o m.arch) \in DOMAIN RegsList
                               THEN RegsList[S_ARCH \o m.arch]
                               ELSE EmptyDict
            /\ line = L_DetA => DOMAIN ArchRegs = {4096} /\ ArchRegs[4096][1] = N_CTRL
            /\ line = L_DetX => DOMAIN ArchRegs = {4096, 8192} /\ ArchRegs[4096][1] = N_GPCR
            /\ line = L_DetNone => ArchRegs = EmptyDict

\* C5: boardA/armv5 after boardX/armv5: the map of the machine's name wins
\* over the map of its architecture, and replaces the one selected before.
C5_Witness ==
    /\ Lines(hist) = <<L_DetX, L_DetA>>
    /\ DOMAIN ArchRegs = {4096}
    /\ ArchRegs[4096][1] = N_CTRL

\* C6, as the specification states it: ArchRegs is empty after a begin
\* line, and a watch line that follows a begin line with no detect line in
\* between names its register after the address.
C6_ResetAtBegin ==
    Len(hist) > 0 =>
        LET n == Len(hist)
            line == hist[n].line
            b == LastBegin(hist, n)
        IN  /\ Kind(line) = "begin" => ArchRegs = EmptyDict
            /\ (/\ Kind(line) = "watch"
                /\ hist[n].raised = ""
                /\ b > 0
                /\ \A i \in b..n : Kind(hist[i].line) # "detect")
               => /\ VirtMap[Match[line].watch.vaddr].name = Match[line].watch.vaddr
                  /\ VirtMap[Match[line].watch.vaddr].bitdefs = <<>>

\* C6: ArchRegs is what the last detect line selected, begin lines or not,
\* and empty when there was none; a watch line after a begin line finds its
\* register in it.
C6_ArchRegsKept ==
    /\ ArchRegs = ArchRegsAt(hist, Len(hist))
    /\ (/\ Len(hist) > 0
        /\ Kind(hist[Len(hist)].line) = "watch"
        /\ hist[Len(hist)].raised = "")
       => VirtMap[Match[hist[Len(hist)].line].watch.vaddr] = WatchDisplayAt(hist, Len(hist))

\* C6: the watch line after the begin line found CTRL in the ArchRegs the
\* detect line before the begin line selected.
C6_Witness ==
    /\ Lines(hist) = <<L_DetA, L_Begin, L_W1, L_M33>>
    /\ ArchRegs # EmptyDict
    /\ out = <<O_Annotated>>

\* The descs of the fields of bitdefs that have a bit of the mask.
RECURSIVE FieldsIn(_, _)
FieldsIn(bitdefs, mask) ==
    IF bitdefs = <<>> THEN <<>>
    ELSE IF And(Head(bitdefs)[1], mask) # Zero
         THEN <<Head(bitdefs)[2]>> \o FieldsIn(Tail(bitdefs), mask)
         ELSE FieldsIn(Tail(bitdefs), mask)

\* The places in frags of the getValue calls for named fields.
NamedFrags == {k \in DOMAIN frags : frags[k].desc # <<"?">>}

\* C7: displayFunc takes a line for the start of a trace exactly when its
\* changed mask is 0: it then picks the fields by val, no getValue call adds
\* an ignore list, and the line printed has the value as 8 hex digits; when
\* the changed mask is not 0 every getValue call adds an ignore list.
C7_FirstOccurrence ==
    Displayed =>
        IF LastChanged = Zero
        THEN /\ \A k \in DOMAIN frags :
                    frags[k].add_il = 0 /\ ~Contains(frags[k].text, <<"(">>)
             /\ \A k \in NamedFrags : frags[k].changed = LastVal
             /\ [k \in 1..Cardinality(NamedFrags) |-> frags[k].desc]
                    = FieldsIn(LastDisplay.bitdefs, LastVal)
             /\ Contains(out[1], FmtStr(LastDisplay.name, 8) \o <<"=">>
                                     \o FmtHex0(LastVal, 8) \o <<":">>)
        ELSE /\ \A k \in DOMAIN frags :
                    frags[k].add_il = 1 /\ Contains(frags[k].text, <<"(">>)
             /\ \A k \in NamedFrags : frags[k].changed = LastChanged
             /\ [k \in 1..Cardinality(NamedFrags) |-> frags[k].desc]
                    = FieldsIn(LastDisplay.bitdefs, LastChanged)

\* C7: a line with changed mask 0 and two fields set, printed without
\* ignore lists and with the value.
C7_Witness ==
    /\ Displayed
    /\ LastChanged = Zero
    /\ LastVal = Bits({0, 1, 4})
    /\ LastDisplay.name = N_CTRL
    /\ Len(frags) = 3
    /\ \A k \in DOMAIN frags : frags[k].add_il = 0

\* The line displayFunc prints, with or without the value after the name.
DisplayedLine(withValue) ==
    FmtSeconds(PyInt(LastMem.time, 10)) \o LastDisplay.type \o <<" ">>
        \o FmtStr(LastDisplay.name, 8)
        \o (IF withValue THEN <<"=">> \o FmtHex0(LastVal, 8) ELSE <<>>)
        \o <<":">> \o Concat([k \in DOMAIN frags |-> frags[k].text])

\* C8, as the specification states it: the value follows the name when the
\* line is not the start of a trace, and the name is followed by ":" when
\* it is.
C8_ValueWhenNotFirst ==
    Displayed => out = <<DisplayedLine(LastChanged # Zero)>>

\* C8: the value follows the name exactly when the line is the start of a
\* trace (changed mask 0); otherwise the name is followed by ":".
C8_ValueWhenFirst ==
    Displayed => out = <<DisplayedLine(LastChanged = Zero)>>

\* C8: the start of a trace of CTRL, printed with the value.
C8_Witness ==
    /\ Displayed
    /\ LastDisplay.name = N_CTRL
    /\ LastVal = Bits({0, 1})
    /\ LastChanged = Zero
    /\ out = <<O_First>>

\* C9, as the specification states it: after the detect line and the watch
\* line, `mem V1=3 (3)` is printed by the displayFunc of CTRL as the start
\* of a trace, and so is every memory line whose changed mask is its value.
C9_FirstWhenChangedIsVal ==
    /\ Lines(hist) = <<L_DetA, L_W1, L_MemNoTime>>
       => /\ Len(out) = 1
          /\ Contains(out[1], N_CTRL)
          /\ Contains(out[1], <<"0","0","0","0","0","0","0","3">>)
          /\ Contains(out[1], <<" ","E","N","=","1"," ","R","U","N","=","1">>)
    /\ (Displayed /\ LastChanged = LastVal)
       => \A k \in DOMAIN frags : frags[k].add_il = 0

\* C9: `mem V1=3 (3)` has no time before it, is no memory line and is
\* printed as it is; `0: mem V1=3 (3)` is printed by the displayFunc of CTRL
\* with ignore lists and without the value; `0: mem V1=3 (0)` is the line
\* printed as the start of a trace.  A line whose changed mask is its value
\* and not 0 is never printed as the start of a trace.
C9_FirstOnlyWhenChangedIsZero ==
    /\ Lines(hist) = <<L_DetA, L_W1, L_MemNoTime>>
       => Kind(L_MemNoTime) = "other" /\ out = <<L_MemNoTime>> /\ frags = <<>>
    /\ Lines(hist) = <<L_DetA, L_W1, L_M33>> => out = <<O_Annotated>>
    /\ Lines(hist) = <<L_DetA, L_W1, L_M30>> => out = <<O_First>>
    /\ (Displayed /\ LastChanged = LastVal /\ LastChanged # Zero)
       => /\ frags # <<>>
          /\ \A k \in DOMAIN frags : frags[k].add_il = 1
          /\ out = <<DisplayedLine(FALSE)>>

\* C9: the three lines of the example, the third with the time it needs.
C9_Witness ==
    /\ Lines(hist) = <<L_DetA, L_W1, L_M33>>
    /\ out = <<O_Annotated>>
    /\ [k \in DOMAIN frags |-> frags[k].pos] = << <<0>>, <<1>> >>

\* The changed bits of the last line displayed that no field names.
LastEffective == IF LastChanged = Zero THEN LastVal ELSE LastChanged
LastUnnamed == And(LastEffective, Not(NamedBits(LastDisplay.bitdefs)))

\* C10: displayFunc calls getValue for "?" exactly when a changed bit is in
\* no field's mask; it does so once, after the calls for the fields; the
\* positions listed are the changed bits no field names, and the value is
\* val with only those bits, each in its place.
C10_UnnamedFragment ==
    Displayed =>
        LET Q == {k \in DOMAIN frags : frags[k].desc = <<"?">>}
            f == frags[Len(frags)]
            il == Join(<<" ">>, [k \in DOMAIN f.pos |->
                                    FmtNum(LastDisplay.pos * 32 + f.pos[k], 10)])
        IN  /\ Q # {} <=> LastUnnamed # Zero
            /\ Q # {} =>
                /\ Q = {Len(frags)}
                /\ f.pos = SortedSeq(LastUnnamed.bits)
                /\ f.outval = And(LastVal, LastUnnamed)
                /\ f.text = IF LastChanged = Zero
                            THEN <<" ","?","=">> \o FmtHex(And(LastVal, LastUnnamed))
                            ELSE <<" ","?","(">> \o il \o <<")","=">>
                                     \o FmtHex(And(LastVal, LastUnnamed))

\* C10: bits 0, 1, 4 and 31 changed on GPCR: bit 4 is of HI, bit 1 of ODD,
\* and of the changed bits 0 and 31 that no field names, only bit 31 is set
\* in val.
C10_Witness ==
    /\ Displayed
    /\ LastDisplay.name = N_GPCR
    /\ LastChanged = Bits({0, 1, 4, 31})
    /\ LastVal = Bits({1, 5, 31})
    /\ Len(frags) = 3
    /\ frags[3].desc = <<"?">>
    /\ frags[3].pos = <<0, 31>>
    /\ frags[3].outval = Bits({31})

\* The last call of procline, and the line it was given.
LastEntry == hist[Len(hist)]
LastLine == hist[Len(hist)].line

\* C11, as the specification states it: a watch line whose paddr ArchRegs
\* gives as a name alone returns, stores a memDisplay of that name with no
\* fields under vaddr, and prints the line.
C11_BareNameWatch ==
    (/\ Len(hist) > 0
     /\ Kind(LastLine) = "watch"
     /\ IsInt(Match[LastLine].watch.paddr, 16)
     /\ PyInt(Match[LastLine].watch.paddr, 16) \in DOMAIN ArchRegs
     /\ Len(ArchRegs[PyInt(Match[LastLine].watch.paddr, 16)]) = 1)
    => /\ LastEntry.raised = ""
       /\ out = <<LastLine>>
       /\ Match[LastLine].watch.vaddr \in DOMAIN VirtMap
       /\ VirtMap[Match[LastLine].watch.vaddr].name
              = ArchRegs[PyInt(Match[LastLine].watch.paddr, 16)][1]
       /\ VirtMap[Match[LastLine].watch.vaddr].bitdefs = <<>>

\* The place of the last detect line among h[1..n], 0 when there is none.
LastDetect(h, n) == Max({0} \cup {i \in 1..n : Kind(h[i].line) = "detect"})

\* "000.000 REG       V1: ?(0 1)=3"
O_Synthetic ==
    <<"0","0","0",".","0","0","0"," ","R","E","G"," "," "," "," "," "," "," ","V","1",":"," ","?","(","0"," ","1",")","=","3">>

\* C12: when the last detect line has a name and an architecture that
\* RegsList has no map for, every watch line that returns stores a
\* memDisplay named after its vaddr, with no fields, whatever its paddr.
C12_SyntheticAfterMiss ==
    (/\ Len(hist) > 0
     /\ Kind(LastLine) = "watch"
     /\ LastEntry.raised = ""
     /\ LastDetect(hist, Len(hist)) > 0
     /\ Match[hist[LastDetect(hist, Len(hist))].line].detect.name \notin DOMAIN RegsList
     /\ (S_ARCH \o Match[hist[LastDetect(hist, Len(hist))].line].detect.arch)
            \notin DOMAIN RegsList)
    => /\ ArchRegs = EmptyDict
       /\ VirtMap[Match[LastLine].watch.vaddr].name = Match[LastLine].watch.vaddr
       /\ VirtMap[Match[LastLine].watch.vaddr].bitdefs = <<>>

\* C12: boardA was detected, then a machine RegsList does not know; the
\* watch of 0x1000, which boardA names CTRL, is named after V1.
C12_Witness ==
    /\ Lines(hist) = <<L_DetA, L_DetNone, L_W1, L_M33>>
    /\ out = <<O_Synthetic>>

\* What follows the first "mem " of a line.
AfterMem(line) ==
    LET i == CHOOSE k \in 1..Len(line) :
                 StartsAt(line, k, S_mem) /\ \A j \in 1..(k - 1) : ~StartsAt(line, j, S_mem)
    IN  SubSeq(line, i + Len(S_mem), Len(line))

\* "001.530(0000251) V1=zz (1)"
O_BadDefault ==
    <<"0","0","1",".","5","3","0","(","0","0","0","0","2","5","1",")"," ","V","1","=","z","z"," ","(","1",")">>
\* "000.000 V1=3 (3)"
O_M33Default ==
    <<"0","0","0",".","0","0","0"," ","V","1","=","3"," ","(","3",")">>

\* C13: a memory line of an address VirtMap has no entry for never raises:
\* it prints the time, the delta if the line has a clock, a space, and what
\* follows "mem " in the line as it is, hex or not.
C13_DefaultStep ==
    LET e == hist'[Len(hist')]
        m == Match[e.line].mem
        t == FmtSeconds(PyInt(m.time, 10))
        clk == IF m.clockIsNone THEN t
               ELSE t \o <<"(">> \o FmtNum0(PyInt(m.clock, 16) - LastClock, 10, 7) \o <<")">>
    IN  /\ (Kind(e.line) = "mem" /\ m.vaddr \notin DOMAIN VirtMap)
           => /\ e.raised = ""
              /\ out' = <<clk \o <<" ">> \o AfterMem(e.line)>>
              /\ AfterMem(e.line) = m.vaddr \o <<"=">> \o m.val \o <<" ","(">>
                                        \o m.changed \o <<")">>
        /\ Lines(hist') = <<L_DetA, L_M33>> => out' = <<O_M33Default>>
C13_Default == [][C13_DefaultStep]_vars

\* C13: a line with a clock and a value that is not hex, printed by
\* defaultFunc.
C13_Witness ==
    /\ Lines(hist) = <<L_C105, L_Bad>>
    /\ hist[2].raised = ""
    /\ out = <<O_BadDefault>>

\* RegsList as preproc() left it when the module was loaded.
LoadedRegsList == preproc(RawRegsList)

\* C14: no line changes RegsList: after any lines it is what preproc() made
\* of the register maps, also the map ArchRegs was bound to.
C14_RegsListKept ==
    /\ RegsList = LoadedRegsList
    /\ \A k \in DOMAIN LoadedRegsList : LoadedRegsList[k] # EmptyDict

\* C14: ArchRegs was the map of boardA, a watch and a memory line used it,
\* then another detect line replaced it by the empty map; RegsList still
\* has CTRL for boardA.
C14_Witness ==
    /\ Lines(hist) = <<L_DetA, L_W1, L_M30, L_DetNone>>
    /\ ArchRegs = EmptyDict
    /\ RegsList[N_boardA][4096][1] = N_CTRL

\* The bits a comma separated part names: "hi-lo" the bits hi, hi-1, ..., lo
\* and "n" the bit n.
TokenBits(tok) ==
    LET r == split(tok, "-", 1)
    IN  IF Len(r) > 1
        THEN {n \in 0..31 : PyInt(r[2], 10) <= n /\ n <= PyInt(r[1], 10)}
        ELSE {PyInt(tok, 10)}
DescBits(desc) ==
    IF desc.type = "int" THEN {desc.value}
    ELSE UNION {TokenBits(Tok) : Tok \in Range(split(desc.value, ",", -1))}

RECURSIVE FieldsOf(_, _)
FieldsOf(bitdefs, mask) ==
    IF bitdefs = <<>> THEN <<>>
    ELSE IF And(Head(bitdefs)[1], mask) # Zero
         THEN <<Head(bitdefs)>> \o FieldsOf(Tail(bitdefs), mask)
         ELSE FieldsOf(Tail(bitdefs), mask)

\* C16: displayFunc calls getValue once for each field whose mask has a
\* changed bit, in the order of the table, and for no other field; fields
\* that share bits are each printed; the changed bits left for "?" have no
\* bit of the mask of a field printed.
C16_FieldFragments ==
    Displayed =>
        LET sel == FieldsOf(LastDisplay.bitdefs, LastEffective)
        IN  /\ NamedFrags = 1..Len(sel)
            /\ Len(frags) <= Len(sel) + 1
            /\ \A k \in NamedFrags :
                /\ <<frags[k].bits, frags[k].desc>> = sel[k]
                /\ frags[k].val = LastVal
                /\ frags[k].changed = LastEffective
            /\ \A k \in DOMAIN frags \ NamedFrags :
                /\ frags[k].changed = And(LastEffective, Not(NamedBits(sel)))
                /\ \A j \in NamedFrags : And(frags[k].changed, frags[j].bits) = Zero
            /\ Concat([k \in DOMAIN sel |-> sel[k][2]])
                   = Concat([k \in 1..Len(sel) |-> frags[k].desc])

\* C16: bits 1 and 5 changed on GPCR: bit 5 is of HI (7-4) and of B5, and
\* both are printed, with ODD between them as in the table.
C16_Witness ==
    /\ Displayed
    /\ LastDisplay.name = N_GPCR
    /\ LastChanged = Bits({1, 5, 31})
    /\ LastVal = Bits({5})
    /\ [k \in DOMAIN frags |-> frags[k].desc] = <<N_HI, N_ODD, N_B5, <<"?">> >>
    /\ frags[4].changed = Bits({31})

\* The positions 0..31 of the 1 bits of a.
MaskSet(a) == {i \in 0..31 : And(Bit(i), a) # Zero}

\* " F(65 67)=2"
O_Field ==
    <<" ","F","(","6","5"," ","6","7",")","=","2">>

\* C17: getValue packs the bits of val that are in the field mask: bit k of
\* the value printed is the bit of val at the k-th lowest bit of the mask.
\* The ignore list is the bits of the mask that changed, in increasing
\* order, each as self.pos * 32 + i.
C17_GetValue ==
    \A k \in DOMAIN frags :
        LET f == frags[k]
            M == MaskSet(f.bits)
            rank(i) == Cardinality({j \in M : j < i})
            packed == Bits({rank(i) : i \in M \cap MaskSet(f.val)})
            listed == SortedSeq(M \cap MaskSet(f.changed))
        IN  /\ f.outval = packed
            /\ f.pos = listed
            /\ \E self \in Range(VirtMap) :
                 f.text = IF f.add_il # 0
                          THEN <<" ">> \o f.desc \o <<"(">>
                                   \o Join(<<" ">>, [n \in DOMAIN listed |->
                                               FmtNum(self.pos * 32 + listed[n], 10)])
                                   \o <<")", "=">> \o FmtHex(packed)
                          ELSE <<" ">> \o f.desc \o <<"=">> \o FmtHex(packed)

\* C17: the field of bits 3 and 1 in word 2: bit 3 of val is bit 1 of the
\* value printed, and both bits changed.
C17_Witness ==
    /\ Len(frags) = 1
    /\ frags[1].bits = Bits({1, 3})
    /\ frags[1].val = Bits({3, 5, 31})
    /\ frags[1].changed = Bits({1, 3, 31})
    /\ frags[1].outval = Bits({1})
    /\ frags[1].text = O_Field

\* The addresses with a watch line that returned since the last begin line.
WatchedNow(h) ==
    {Match[h[i].line].watch.vaddr :
        i \in {j \in (LastBegin(h, Len(h)) + 1)..Len(h) :
                  Kind(h[j].line) = "watch" /\ h[j].raised = ""}}

\* C18: the memDisplay stored for an address is the one its last watch line
\* since the last begin line built, from the ArchRegs of that moment: a
\* detect line after it changes neither its name nor its fields.  A watch
\* line before any detect line is named after its address and stays so.
C18_BoundAtWatch ==
    /\ DOMAIN VirtMap = WatchedNow(hist)
    /\ \A v \in DOMAIN VirtMap :
           VirtMap[v] = WatchDisplayAt(hist, Max(WatchesOf(hist, v,
                                                  LastBegin(hist, Len(hist)) + 1, Len(hist))))
    /\ Lines(hist) = <<L_W1, L_DetA, L_M33>> => out = <<O_Synthetic>>
    /\ Lines(hist) = <<L_DetA, L_W1, L_DetNone, L_M33>> => out = <<O_Annotated>>

\* C18: V1 was watched before boardA was detected; its memory line is
\* printed under V1 although ArchRegs now names 0x1000 CTRL.
C18_Witness ==
    /\ Lines(hist) = <<L_W1, L_DetA, L_M33>>
    /\ ArchRegs[4096][1] = N_CTRL
    /\ VirtMap[<<"V", "1">>].name = <<"V", "1">>
    /\ out = <<O_Synthetic>>

\* C19: a memory line of a watched address whose val or changed is not hex,
\* and a watch line whose paddr is not hex, raise ValueError; the call that
\* raises it has changed neither VirtMap nor LastClock nor ArchRegs and has
\* printed nothing.
C19_FailStep ==
    LET e == hist'[Len(hist')]
    IN  /\ (/\ Kind(e.line) = "mem"
            /\ Match[e.line].mem.vaddr \in DOMAIN VirtMap
            /\ \/ ~IsInt(Match[e.line].mem.val, 16)
               \/ ~IsInt(Match[e.line].mem.changed, 16))
           => e.raised = "ValueError"
        /\ (Kind(e.line) = "watch" /\ ~IsInt(Match[e.line].watch.paddr, 16))
           => e.raised = "ValueError"
        /\ e.raised = "ValueError"
           => /\ VirtMap' = VirtMap
              /\ LastClock' = LastClock
              /\ ArchRegs' = ArchRegs
              /\ out' = <<>>
              /\ frags' = <<>>
C19_FailBeforeChange == [][C19_FailStep]_vars

\* C19: after a watch of V1 and a clock of 0x105, a line of V1 with clock
\* 0x200 and a changed mask that is not hex, then a watch of V2 at an
\* address that is not hex: both raised, LastClock is 0x105 and V1 is the
\* only address watched.
C19_Witness ==
    /\ Lines(hist) = <<L_W1, L_C105, L_BadChg, L_W2bad>>
    /\ hist[3].raised = "ValueError"
    /\ hist[4].raised = "ValueError"
    /\ LastClock = 261
    /\ DOMAIN VirtMap = {<<"V", "1">>}
    /\ out = <<>>

\* "hello"
O_Other ==
    <<"h","e","l","l","o">>

\* C20: a call of procline that returns has printed once, and has done what
\* one handler does, the first of memory, watch, begin, detect whose
\* expression matches the line: a watch, begin or detect line is printed as
\* it is; a line no expression matches is printed without the white space
\* at its end and changes nothing.
C20_OneHandlerStep ==
    LET e == hist'[Len(hist')]
        k == Kind(e.line)
    IN  e.raised = "" =>
          /\ Len(out') = 1
          /\ k \in {"watch", "begin", "detect"} => out' = <<e.line>>
          /\ k = "mem" => VirtMap' = VirtMap /\ ArchRegs' = ArchRegs
          /\ k = "watch"
             => /\ LastClock' = LastClock /\ ArchRegs' = ArchRegs
                /\ DOMAIN VirtMap' = DOMAIN VirtMap \cup {Match[e.line].watch.vaddr}
                /\ \A v \in DOMAIN VirtMap :
                       v # Match[e.line].watch.vaddr => VirtMap'[v] = VirtMap[v]
          /\ k = "begin" => VirtMap' = EmptyDict /\ LastClock' = 0 /\ ArchRegs' = ArchRegs
          /\ k = "detect" => VirtMap' = VirtMap /\ LastClock' = LastClock
          /\ k = "other"
             => /\ out' = <<rstrip(e.line)>>
                /\ out'[1] = <<>> \/ out'[1][Len(out'[1])] \notin WhiteSpace
                /\ e.line = L_Other => out' = <<O_Other>>
                /\ VirtMap' = VirtMap /\ LastClock' = LastClock /\ ArchRegs' = ArchRegs
          /\ RegsList' = RegsList
          /\ Cardinality({r \in {"mem", "watch", "begin", "detect"} :
                             Match[e.line][r].matched}) <= 1
C20_OneHandler == [][C20_OneHandlerStep]_vars

\* C20: a detect line, a watch line and a memory line, then a line no
\* expression matches: it is printed without the two spaces at its end, and
\* the watch and the clock are as the lines before left them.
C20_Witness ==
    /\ Lines(hist) = <<L_DetX, L_W1, L_C105, L_Other>>
    /\ out = <<O_Other>>
    /\ DOMAIN VirtMap = {<<"V", "1">>}
    /\ LastClock = 261

=============================================================================
